---- MODULE Spec2Model ----
(***************************************************************************)
(* hueyx consumer: HueyxScheduler (src/hueyx/consumer.py).                 *)
(*                                                                         *)
(* Several scheduler instances share one redis store.  Every tick          *)
(* (enqueue_periodic_tasks) lists the due periodic tasks, decides for each *)
(* under a redis lock whether this time pattern was already scheduled,     *)
(* enqueues the eligible ones and then restarts the dead tasks.            *)
(***************************************************************************)
EXTENDS Integers, Sequences, FiniteSets, TLC

\* ------------------------------------------------------------------ bounds

\* Number of scheduler instances (consumers) sharing the store.
NumSched == 2

\* Number of ticks (calls of enqueue_periodic_tasks) made in all.
MaxTicks == 3

Sched == 1..NumSched

\* ------------------------------------------------------- python values

\* Python's None and a present value.
None == <<>>

Some(v) == <<v>>

\* str.encode / bytes.decode("utf-8"): redis stores and returns bytes.
Utf8Encode(s) == [utf8 |-> s]

Utf8Decode(b) == b.utf8

\* ------------------------------------------------------------ datetime

\* datetime.toordinal(): days since 0001-01-01 (proleptic Gregorian).
IsLeap(y) == (y % 4 = 0) /\ ((y % 100 # 0) \/ (y % 400 = 0))

DaysBeforeYear(y) == (y - 1) * 365 + (y - 1) \div 4 - (y - 1) \div 100 + (y - 1) \div 400

DaysBeforeMonth(y, m) ==
    <<0, 31, 59, 90, 120, 151, 181, 212, 243, 273, 304, 334>>[m]
        + (IF m > 2 /\ IsLeap(y) THEN 1 ELSE 0)

ToOrdinal(t) == DaysBeforeYear(t.year) + DaysBeforeMonth(t.year, t.month) + t.day

\* isoweekday(): Monday is 1.
WeekdayMutantIso(t) == ((ToOrdinal(t) + 6) % 7) + 1

\* weekday(), the tm_wday of timetuple(): Monday is 0.
Weekday(t) == (ToOrdinal(t) + 6) % 7

\* now.timetuple(): (year, mon, mday, hour, min, sec, wday, yday, isdst).
TimeTuple(t) ==
    << t.year, t.month, t.day, t.hour, t.minute, t.second,
       Weekday(t), DaysBeforeMonth(t.year, t.month) + t.day, -1 >>

\* A pattern of hour granularity: the minute is left out.
CreateTimePatternMutantNoMinute(t) ==
    LET tt == TimeTuple(t)
    IN  "month" \o ToString(tt[2]) \o ".day" \o ToString(tt[3])
          \o ".week_day" \o ToString(tt[7]) \o ".hour" \o ToString(tt[4])

\* _create_time_pattern
CreateTimePattern(t) ==
    LET tt == TimeTuple(t)
        month == tt[2]
        day == tt[3]
        hour == tt[4]
        minute == tt[5]
        week_day == tt[7]
    IN  "month" \o ToString(month) \o ".day" \o ToString(day)
          \o ".week_day" \o ToString(week_day)
          \o ".hour" \o ToString(hour) \o ".minute" \o ToString(minute)

\* ------------------------------------------------------------- inputs

\* The `now` values a tick may be called with: an instant of one minute and
\* one of the next minute.
T0 == [year |-> 2024, month |-> 3, day |-> 1, hour |-> 10, minute |-> 5, second |-> 30]

T1 == [T0 EXCEPT !.minute = 6, !.second = 1]

Nows == {T0, T1}

\* Timestamps for the encoder: T0 and T1, and timestamps that differ from T0
\* in the second, the year, the day, the month and day, or the hour only.
Stamps ==
    { T0, T1,
      [T0 EXCEPT !.second = 0],
      [T0 EXCEPT !.year = 2025],
      [T0 EXCEPT !.year = 2030],
      [T0 EXCEPT !.day = 8],
      [T0 EXCEPT !.month = 11],
      [T0 EXCEPT !.month = 1, !.day = 11],
      [T0 EXCEPT !.month = 11, !.day = 1, !.hour = 11] }

\* huey.name and the periodic task definitions, in listing order.
HueyName == "q"

PeriodicTasks == <<"DailyReport", "Cleanup">>

TaskNames == {PeriodicTasks[n] : n \in 1..Len(PeriodicTasks)}

\* The schedules the periodic tasks may be registered with: for each task the
\* minutes of the hour at which it is due.
Crontabs ==
    { [task \in TaskNames |-> IF task = "DailyReport" THEN {5, 6} ELSE {5}],
      [task \in TaskNames |-> IF task = "DailyReport" THEN {5} ELSE {}] }

\* Dead task instances the queue may report: id, name, args, kwargs.
DeadA == [id |-> 1, name |-> "report_daily", args |-> <<1>>, kwargs |-> [retries |-> 1]]

DeadB == [id |-> 2, name |-> "report", args |-> <<2, 3>>, kwargs |-> [retries |-> 2]]

DeadC == [id |-> 3, name |-> "cleanup", args |-> <<4>>, kwargs |-> [retries |-> 3]]

\* What huey.get_dead_tasks() may report.
DeadLists == {<<>>, <<DeadA>>, <<DeadC, DeadA>>, <<DeadA, DeadB>>, <<DeadB, DeadC, DeadA>>}

\* huey.restartable_tasks: task types by class name, in registration order.
Registries == {<<>>, <<"report", "report_daily">>, <<"report_daily", "report">>}

\* ---------------------------------------------------------- redis keys

FullName(task) == "huey." \o HueyName \o "." \o task

LockName(task) == FullName(task) \o ".periodic_lock"

PatternName(task) == FullName(task) \o ".time_pattern"

Keys == {LockName(t) : t \in TaskNames} \cup {PatternName(t) : t \in TaskNames}

\* expire=60 of redis_lock.Lock; a key set without EX never expires.
LockExpire == 60

NoExpiry == -1

VARIABLES
    multiple_scheduler_locking, \* per instance: the constructor's flag
    crontab,                    \* the periodic tasks' schedules
    restartable_tasks,          \* huey.restartable_tasks
    store,                      \* redis: key -> None or Some([val, ttl])
    pc,                         \* per instance: position in the tick
    now,                        \* per instance: the tick's `now`
    due,                        \* per instance: huey.read_periodic(now)
    i,                          \* per instance: index of the for loop over due
    ret,                        \* per instance: pending return value or exception
                                \*   of check_and_set_for_multiple_execution
    dead_tasks,                 \* huey.get_dead_tasks(): the queue's dead instances
    j,                          \* per instance: index of the for loop over dead
    trace,                      \* per instance: calls made and results, in order
    lease_lost                  \* instances inside the locked section whose lock key
                                \*   expired (history, read by no action)

\* What is set up at construction and never changes.
config == << multiple_scheduler_locking, crontab, restartable_tasks, dead_tasks >>

vars == << config, store, pc, now, due, i, ret, j, trace, lease_lost >>

\* ------------------------------------------------------------- helpers

Append2(tr, e1, e2) == Append(Append(tr, e1), e2)

\* The task of the current iteration of `for task in self.huey.read_periodic(now)`.
Task(s) == due[s][i[s]]

\* The places of the trace of instance s where a tick starts, and their number
\* over all instances.
TickStarts(s) == {n \in 1..Len(trace[s]) : trace[s][n][1] = "enqueue_periodic_tasks"}

Ticks(s) == Cardinality(TickStarts(s))

RECURSIVE SumTicks(_)
SumTicks(S) == IF S = {} THEN 0
               ELSE LET s == CHOOSE x \in S : TRUE IN Ticks(s) + SumTicks(S \ {s})

TotalTicks == SumTicks(Sched)

\* conn.get(key) / conn.set(key, value) / delete
Get(key) == IF store[key] = None THEN None ELSE Some(store[key][1].val)

SetKey(st, key, value, ttl) == [st EXCEPT ![key] = Some([val |-> value, ttl |-> ttl])]

DelKey(st, key) == [st EXCEPT ![key] = None]

\* _get_last_execution_time_pattern: None, or the decoded pattern.
GetLastExecutionTimePattern(full_name) ==
    LET current_val == Get(full_name)
    IN  IF current_val # None THEN Some(Utf8Decode(current_val[1])) ELSE None

\* A comparison that never finds the pattern recorded.
CanExecuteMutantAlways(full_name, t) == TRUE

\* _can_execute: last_time_pattern != current_time_pattern
CanExecute(full_name, t) ==
    LET current_time_pattern == CreateTimePattern(t)
        last_time_pattern == GetLastExecutionTimePattern(full_name)
    IN  \/ last_time_pattern = None
        \/ last_time_pattern[1] # current_time_pattern

\* `task_type.task_class.__name__ in task.name`
IsSubstring(a, b) ==
    \E n \in 1..(Len(b) - Len(a) + 1) : SubSeq(b, n, n + Len(a) - 1) = a

\* The inner for loop of restart_dead_tasks with its break: the index of the
\* first registry entry matching the dead task's name, 0 when none matches.
Matches(task) == {m \in 1..Len(restartable_tasks) : IsSubstring(restartable_tasks[m], task.name)}

\* The scan without its break: the last matching entry.
FirstMatchMutantLast(task) ==
    IF Matches(task) = {} THEN 0
    ELSE CHOOSE m \in Matches(task) : \A m2 \in Matches(task) : m2 <= m

\* The scan falling through to the last entry when none matches.
FirstMatchMutantFallback(task) ==
    IF Matches(task) = {} THEN Len(restartable_tasks)
    ELSE CHOOSE m \in Matches(task) : \A m2 \in Matches(task) : m <= m2

\* The scan as written.
FirstMatch(task) ==
    IF Matches(task) = {} THEN 0
    ELSE CHOOSE m \in Matches(task) : \A m2 \in Matches(task) : m <= m2

\* huey.read_periodic(now): the periodic tasks whose schedule validates `now`,
\* in listing order.
ValidateDatetime(task, t) == t.minute \in crontab[task]

ReadPeriodic(t) == SelectSeq(PeriodicTasks, LAMBDA task : ValidateDatetime(task, t))

HeartbeatObservationKey(id) == "heartbeat." \o ToString(id)

\* ---------------------------------------------------------------- Init

\* The state after construction of the instances, over a fresh store.
Start ==
    /\ store = [k \in Keys |-> None]
    /\ pc = [s \in Sched |-> "idle"]
    /\ now = [s \in Sched |-> T0]
    /\ due = [s \in Sched |-> <<>>]
    /\ i = [s \in Sched |-> 0]
    /\ ret = [s \in Sched |-> "none"]
    /\ j = [s \in Sched |-> 0]
    /\ trace = [s \in Sched |-> <<>>]
    /\ lease_lost = {}

\* The instances of one deployment share the flag; the queue holds one dead
\* instance without and one with a registered type.
Init ==
    /\ multiple_scheduler_locking \in {[s \in Sched |-> b] : b \in BOOLEAN}
    /\ crontab \in Crontabs
    /\ restartable_tasks = <<"report", "report_daily">>
    /\ dead_tasks = <<DeadC, DeadA>>
    /\ Start

\* ------------------------------------------------ enqueue_periodic_tasks

\* Lines 19-24: emit the status event and list the due tasks.
BeginTick(s) ==
    /\ pc[s] = "idle"
    /\ TotalTicks < MaxTicks
    /\ \E t \in Nows :
         /\ now' = [now EXCEPT ![s] = t]
         /\ due' = [due EXCEPT ![s] = ReadPeriodic(t)]
         /\ trace' = [trace EXCEPT ![s] =
                Append2(@, <<"enqueue_periodic_tasks", t, ReadPeriodic(t)>>,
                           <<"EVENT_CHECKING_PERIODIC">>)]
         /\ pc' = [pc EXCEPT ![s] = IF ReadPeriodic(t) = <<>> THEN "restart" ELSE "check"]
    /\ i' = [i EXCEPT ![s] = 1]
    /\ ret' = [ret EXCEPT ![s] = "none"]
    /\ UNCHANGED <<config, lease_lost, store, j>>

\* The for loop of line 24 moves to its next task, or line 27 follows.
AfterTask(s) == IF i[s] < Len(due[s]) THEN "check" ELSE "restart"

\* The flag's test inverted: the lock is taken with locking off.
BypassMutantInverted(s) ==
    /\ pc[s] = "check"
    /\ ~multiple_scheduler_locking[s]
    /\ store[LockName(Task(s))] = None
    /\ store' = SetKey(store, LockName(Task(s)), s, LockExpire)
    /\ pc' = [pc EXCEPT ![s] = "can_execute"]
    /\ UNCHANGED <<config, lease_lost, now, due, i, ret, j, trace>>

\* Lines 25, 38-39: locking is off, the task is eligible.
Bypass(s) ==
    /\ pc[s] = "check"
    /\ ~multiple_scheduler_locking[s]
    /\ ret' = [ret EXCEPT ![s] = "True"]
    /\ trace' = [trace EXCEPT ![s] = Append(@, <<"decision", Task(s), "True">>)]
    /\ pc' = [pc EXCEPT ![s] = "enqueue"]
    /\ UNCHANGED <<config, lease_lost, store, now, due, i, j>>

\* A non-blocking acquire whose result is ignored: the section is entered
\* with or without the key.
AcquireMutantNoWait(s) ==
    /\ pc[s] = "check"
    /\ multiple_scheduler_locking[s]
    /\ store' = IF store[LockName(Task(s))] = None
                THEN SetKey(store, LockName(Task(s)), s, LockExpire)
                ELSE store
    /\ pc' = [pc EXCEPT ![s] = "can_execute"]
    /\ UNCHANGED <<config, lease_lost, now, due, i, ret, j, trace>>

\* A SET without NX: the key is taken whether or not it is held.
AcquireMutantOverwrite(s) ==
    /\ pc[s] = "check"
    /\ multiple_scheduler_locking[s]
    /\ store' = SetKey(store, LockName(Task(s)), s, LockExpire)
    /\ pc' = [pc EXCEPT ![s] = "can_execute"]
    /\ UNCHANGED <<config, lease_lost, now, due, i, ret, j, trace>>

\* Lines 25, 38-45: redis_lock.Lock.__enter__, a blocking acquire (SET NX EX):
\* the caller waits while the key exists.
Acquire(s) ==
    /\ pc[s] = "check"
    /\ multiple_scheduler_locking[s]
    /\ store[LockName(Task(s))] = None
    /\ store' = SetKey(store, LockName(Task(s)), s, LockExpire)
    /\ pc' = [pc EXCEPT ![s] = "can_execute"]
    /\ UNCHANGED <<config, lease_lost, now, due, i, ret,
                   j, trace>>

\* A comparison that takes any recorded pattern for the current one: the
\* call is eligible over an absent entry only.
CheckCanExecuteMutantAbsentOnly(s) ==
    /\ pc[s] = "can_execute"
    /\ IF GetLastExecutionTimePattern(PatternName(Task(s))) = None
       THEN /\ pc' = [pc EXCEPT ![s] = "set"]
            /\ ret' = ret
       ELSE /\ pc' = [pc EXCEPT ![s] = "release"]
            /\ ret' = [ret EXCEPT ![s] = "False"]
    /\ UNCHANGED <<config, lease_lost, store, now, due, i, j, trace>>

\* Lines 46-50 (and 72-84): read the ledger and compare.
CheckCanExecute(s) ==
    /\ pc[s] = "can_execute"
    /\ IF CanExecute(PatternName(Task(s)), now[s])
       THEN /\ pc' = [pc EXCEPT ![s] = "set"]
            /\ ret' = ret
       ELSE /\ pc' = [pc EXCEPT ![s] = "release"]
            /\ ret' = [ret EXCEPT ![s] = "False"]
    /\ UNCHANGED <<config, lease_lost, store, now, due, i,
                   j, trace>>

\* The pattern is not recorded.
SetExecutionTimePatternMutantSkip(s) ==
    /\ pc[s] = "set"
    /\ ret' = [ret EXCEPT ![s] = "True"]
    /\ pc' = [pc EXCEPT ![s] = "release"]
    /\ UNCHANGED <<config, lease_lost, store, now, due, i, j, trace>>

\* Lines 51-56 (and 86-89): record the time pattern.
SetExecutionTimePattern(s) ==
    /\ pc[s] = "set"
    /\ store' = SetKey(store, PatternName(Task(s)),
                       Utf8Encode(CreateTimePattern(now[s])), NoExpiry)
    /\ ret' = [ret EXCEPT ![s] = "True"]
    /\ pc' = [pc EXCEPT ![s] = "release"]
    /\ UNCHANGED <<config, lease_lost, now, due, i, j, trace>>

\* An exit that releases on return only: an exception leaves the key in place.
ReleaseMutantLeak(s) ==
    LET key == LockName(Task(s))
        held == store[key] # None /\ store[key][1].val = s
        outcome == IF held THEN ret[s] ELSE "NotAcquired"
    IN  /\ pc[s] = "release"
        /\ store' = IF held /\ outcome \in {"True", "False"} THEN DelKey(store, key) ELSE store
        /\ ret' = [ret EXCEPT ![s] = outcome]
        /\ IF outcome = "True"
           THEN /\ trace' = [trace EXCEPT ![s] = Append(@, <<"decision", Task(s), "True">>)]
                /\ pc' = [pc EXCEPT ![s] = "enqueue"]
                /\ i' = i
           ELSE IF outcome = "False"
           THEN /\ trace' = [trace EXCEPT ![s] = Append(@, <<"decision", Task(s), "False">>)]
                /\ pc' = [pc EXCEPT ![s] = AfterTask(s)]
                /\ i' = [i EXCEPT ![s] = @ + 1]
           ELSE /\ trace' = [trace EXCEPT ![s] = Append(@, <<"raise", outcome>>)]
                /\ pc' = [pc EXCEPT ![s] = "idle"]
                /\ i' = i
        /\ lease_lost' = lease_lost \ {s}
        /\ UNCHANGED <<config, now, due, j>>

\* Line 45, redis_lock.Lock.__exit__: release() deletes the key when it still
\* holds this lock's id and raises NotAcquired otherwise; then the pending
\* return value or exception of the block takes effect (line 25).
Release(s) ==
    LET key == LockName(Task(s))
        held == store[key] # None /\ store[key][1].val = s
        outcome == IF held THEN ret[s] ELSE "NotAcquired"
    IN  /\ pc[s] = "release"
        /\ store' = IF held THEN DelKey(store, key) ELSE store
        /\ ret' = [ret EXCEPT ![s] = outcome]
        /\ IF outcome = "True"
           THEN /\ trace' = [trace EXCEPT ![s] = Append(@, <<"decision", Task(s), "True">>)]
                /\ pc' = [pc EXCEPT ![s] = "enqueue"]
                /\ i' = i
           ELSE IF outcome = "False"
           THEN /\ trace' = [trace EXCEPT ![s] = Append(@, <<"decision", Task(s), "False">>)]
                /\ pc' = [pc EXCEPT ![s] = AfterTask(s)]
                /\ i' = [i EXCEPT ![s] = @ + 1]
           ELSE /\ trace' = [trace EXCEPT ![s] = Append(@, <<"raise", outcome>>)]
                /\ pc' = [pc EXCEPT ![s] = "idle"]
                /\ i' = i
        /\ lease_lost' = lease_lost \ {s}
        /\ UNCHANGED <<config, now, due, j>>

\* The task is enqueued before its event is emitted.
EnqueuePeriodicTaskMutantSwapped(s) ==
    /\ pc[s] = "enqueue"
    /\ trace' = [trace EXCEPT ![s] =
           Append2(@, <<"enqueue", Task(s)>>, <<"EVENT_SCHEDULING_PERIODIC", Task(s)>>)]
    /\ pc' = [pc EXCEPT ![s] = AfterTask(s)]
    /\ i' = [i EXCEPT ![s] = @ + 1]
    /\ UNCHANGED <<config, lease_lost, store, now, due, ret, j>>

\* Lines 26, 58-64: emit the task event and enqueue the task.
EnqueuePeriodicTask(s) ==
    /\ pc[s] = "enqueue"
    /\ trace' = [trace EXCEPT ![s] =
           Append2(@, <<"EVENT_SCHEDULING_PERIODIC", Task(s)>>, <<"enqueue", Task(s)>>)]
    /\ pc' = [pc EXCEPT ![s] = AfterTask(s)]
    /\ i' = [i EXCEPT ![s] = @ + 1]
    /\ UNCHANGED <<config, lease_lost, store, now, due, ret, j>>

\* ----------------------------------------------------- restart_dead_tasks

\* Lines 27, 91-93: list the dead tasks.
RestartDeadTasks(s) ==
    /\ pc[s] = "restart"
    /\ j' = [j EXCEPT ![s] = 1]
    /\ trace' = [trace EXCEPT ![s] = Append(@, <<"restart_dead_tasks">>)]
    /\ pc' = [pc EXCEPT ![s] = "scan"]
    /\ UNCHANGED <<config, lease_lost, store, now, due, i, ret>>

\* Lines 94-95: no registry entry matches this dead task.
SkipDeadTask(s) ==
    /\ pc[s] = "scan"
    /\ j[s] <= Len(dead_tasks)
    /\ FirstMatch(dead_tasks[j[s]]) = 0
    /\ j' = [j EXCEPT ![s] = @ + 1]
    /\ UNCHANGED <<config, lease_lost, store, pc, now, due, i,
                   ret, trace>>

\* Lines 94-100: the first matching entry: revoke, read the heartbeat
\* observation, call the task type with the dead task's arguments, break.
Revive(s) ==
    /\ pc[s] = "scan"
    /\ j[s] <= Len(dead_tasks)
    /\ LET task == dead_tasks[j[s]]
           m == FirstMatch(task)
       IN  /\ m # 0
           /\ trace' = [trace EXCEPT ![s] =
                  Append(Append2(@, <<"revoke_by_id", task.id>>,
                                    <<"get", HeartbeatObservationKey(task.id)>>),
                         <<"submit", restartable_tasks[m], task.args, task.kwargs>>)]
    /\ j' = [j EXCEPT ![s] = @ + 1]
    /\ UNCHANGED <<config, lease_lost, store, pc, now, due, i,
                   ret>>

\* Line 28: return True.
ReturnTrue(s) ==
    /\ pc[s] = "scan"
    /\ j[s] > Len(dead_tasks)
    /\ trace' = [trace EXCEPT ![s] = Append(@, <<"return", "True">>)]
    /\ pc' = [pc EXCEPT ![s] = "idle"]
    /\ UNCHANGED <<config, lease_lost, store, now, due, i, ret, j>>

\* ------------------------------------------------------- specifications

\* Every store call succeeds and every holder leaves the locked section
\* before its lease expires.
Next ==
    \E s \in Sched :
        \/ BeginTick(s)
        \/ Bypass(s)
        \/ Acquire(s)
        \/ CheckCanExecute(s)
        \/ SetExecutionTimePattern(s)
        \/ Release(s)
        \/ EnqueuePeriodicTask(s)
        \/ RestartDeadTasks(s)
        \/ SkipDeadTask(s)
        \/ Revive(s)
        \/ ReturnTrue(s)

Spec == Init /\ [][Next]_vars

\* A deployment without locking at whose ticks no periodic task is due, over
\* every registry and every report of dead tasks.
InitRevive ==
    /\ multiple_scheduler_locking = [s \in Sched |-> FALSE]
    /\ crontab = [task \in TaskNames |-> {}]
    /\ restartable_tasks \in Registries
    /\ dead_tasks \in DeadLists
    /\ Start

NextRevive ==
    \E s \in Sched :
        \/ BeginTick(s)
        \/ RestartDeadTasks(s)
        \/ SkipDeadTask(s)
        \/ Revive(s)
        \/ ReturnTrue(s)

SpecRevive == InitRevive /\ [][NextRevive]_vars

\* Time passes: every key set with an expiry loses d units of its time to
\* live and is deleted by redis when none is left.  A holder may be that slow.
Expiring(k) == store[k] # None /\ store[k][1].ttl # NoExpiry

Expired(k, d) == Expiring(k) /\ store[k][1].ttl <= d

\* A lease that stops counting: the key of a dead holder stays for ever.
LeaseElapseMutantNoExpiry ==
    /\ \E k \in Keys : Expiring(k)
    /\ \E d \in {LockExpire \div 2, LockExpire} :
         store' = [k \in Keys |->
                IF ~Expiring(k) THEN store[k]
                ELSE Some([store[k][1] EXCEPT !.ttl = IF @ > d THEN @ - d ELSE 1])]
    /\ UNCHANGED <<config, lease_lost, pc, now, due, i, ret, j, trace>>

\* redis counts the leases down.
LeaseElapse ==
    /\ \E k \in Keys : Expiring(k)
    /\ \E d \in {LockExpire \div 2, LockExpire} :
         /\ store' = [k \in Keys |->
                IF ~Expiring(k) THEN store[k]
                ELSE IF Expired(k, d) THEN None
                ELSE Some([store[k][1] EXCEPT !.ttl = @ - d])]
         /\ lease_lost' = lease_lost \cup {store[k][1].val : k \in {k2 \in Keys : Expired(k2, d)}}
    /\ UNCHANGED <<config, pc, now, due, i, ret, j, trace>>

\* A deployment with locking enabled whose queue reports no dead task.
InitLocked ==
    /\ multiple_scheduler_locking = [s \in Sched |-> TRUE]
    /\ crontab \in Crontabs
    /\ restartable_tasks = <<"report", "report_daily">>
    /\ dead_tasks = <<>>
    /\ Start

NextLocked ==
    \E s \in Sched :
        \/ BeginTick(s)
        \/ Acquire(s)
        \/ CheckCanExecute(s)
        \/ SetExecutionTimePattern(s)
        \/ Release(s)
        \/ EnqueuePeriodicTask(s)
        \/ RestartDeadTasks(s)
        \/ ReturnTrue(s)

\* The store fails: the lock's SET, the ledger's GET or the ledger's SET
\* raises.  Nothing in the file catches it; an exception raised inside the
\* with block passes through __exit__.
AcquireFail(s) ==
    /\ pc[s] = "check"
    /\ multiple_scheduler_locking[s]
    /\ ret' = [ret EXCEPT ![s] = "ConnectionError"]
    /\ trace' = [trace EXCEPT ![s] =
           Append2(@, <<"failed", "lock", Task(s)>>, <<"raise", "ConnectionError">>)]
    /\ pc' = [pc EXCEPT ![s] = "idle"]
    /\ UNCHANGED <<config, lease_lost, store, now, due, i, j>>

ReadFail(s) ==
    /\ pc[s] = "can_execute"
    /\ ret' = [ret EXCEPT ![s] = "ConnectionError"]
    /\ trace' = [trace EXCEPT ![s] = Append(@, <<"failed", "get", Task(s)>>)]
    /\ pc' = [pc EXCEPT ![s] = "release"]
    /\ UNCHANGED <<config, lease_lost, store, now, due, i, j>>

WriteFail(s) ==
    /\ pc[s] = "set"
    /\ ret' = [ret EXCEPT ![s] = "ConnectionError"]
    /\ trace' = [trace EXCEPT ![s] = Append(@, <<"failed", "set", Task(s)>>)]
    /\ pc' = [pc EXCEPT ![s] = "release"]
    /\ UNCHANGED <<config, lease_lost, store, now, due, i, j>>

NextFail ==
    \/ NextLocked
    \/ \E s \in Sched : AcquireFail(s) \/ ReadFail(s) \/ WriteFail(s)

SpecFail == InitLocked /\ [][NextFail]_vars

\* A call of lines 96-99 raises: revoke_by_id, get or the task type's call.
ReviveFail(s) ==
    /\ pc[s] = "scan"
    /\ j[s] <= Len(dead_tasks)
    /\ LET task == dead_tasks[j[s]]
           m == FirstMatch(task)
           calls == << <<"revoke_by_id", task.id>>,
                      <<"get", HeartbeatObservationKey(task.id)>>,
                      <<"submit", restartable_tasks[m], task.args, task.kwargs>> >>
       IN  /\ m # 0
           /\ \E n \in 1..3 :
                trace' = [trace EXCEPT ![s] =
                    Append2(@ \o SubSeq(calls, 1, n - 1), <<"failed", calls[n][1], task.id>>,
                            <<"raise", "Exception">>)]
    /\ pc' = [pc EXCEPT ![s] = "idle"]
    /\ UNCHANGED <<config, lease_lost, store, now, due, i, ret, j>>

NextReviveFail == NextRevive \/ \E s \in Sched : ReviveFail(s)

SpecReviveFail == InitRevive /\ [][NextReviveFail]_vars

\* The first tick of an instance.
FirstTick(s) == Ticks(s) = 0 /\ BeginTick(s)

\* The instances tick once each, side by side, while time passes.
NextLease ==
    \/ \E s \in Sched :
        \/ FirstTick(s)
        \/ Acquire(s)
        \/ CheckCanExecute(s)
        \/ SetExecutionTimePattern(s)
        \/ Release(s)
        \/ EnqueuePeriodicTask(s)
        \/ RestartDeadTasks(s)
        \/ ReturnTrue(s)
    \/ LeaseElapse

SpecLease == InitLocked /\ [][NextLease]_vars

\* The process of instance s dies inside the locked section or before its
\* enqueue: it makes no further call, and a lock it holds is not released.
Crash(s) ==
    /\ pc[s] \in {"can_execute", "set", "release", "enqueue"}
    /\ trace' = [trace EXCEPT ![s] = Append(@, <<"crash", pc[s]>>)]
    /\ pc' = [pc EXCEPT ![s] = "crashed"]
    /\ UNCHANGED <<config, lease_lost, store, now, due, i, ret, j>>

\* Time passes while no live instance is inside a locked section: the live
\* holders leave within their lease, the keys of dead holders run out.
TimelyElapse ==
    /\ \A k \in Keys : Expiring(k) => pc[store[k][1].val] = "crashed"
    /\ LeaseElapse

\* What instance s does next by itself once its tick has begun.
Step(s) ==
    \/ Acquire(s)
    \/ CheckCanExecute(s)
    \/ SetExecutionTimePattern(s)
    \/ Release(s)
    \/ EnqueuePeriodicTask(s)
    \/ RestartDeadTasks(s)
    \/ ReturnTrue(s)

\* The instances tick once each; any of them may die on the way.
NextCrash ==
    \/ \E s \in Sched : FirstTick(s) \/ Step(s) \/ Crash(s)
    \/ TimelyElapse

\* A live instance goes on with its tick (the blocking acquire of line 45
\* retries until it gets the key) and time goes on.
FairCrash ==
    /\ \A s \in Sched : WF_vars(Step(s))
    /\ WF_vars(TimelyElapse)

SpecCrash == InitLocked /\ [][NextCrash]_vars /\ FairCrash

\* The instances tick once each, side by side, over a store that may fail.
NextFailOnce ==
    \E s \in Sched :
        \/ FirstTick(s) \/ Step(s)
        \/ AcquireFail(s) \/ ReadFail(s) \/ WriteFail(s)

SpecFailOnce == InitLocked /\ [][NextFailOnce]_vars

\* The instances tick again and again, each with its own `now`; any of them
\* may die on the way.
NextCrashTicks ==
    \/ \E s \in Sched : BeginTick(s) \/ Step(s) \/ Crash(s)
    \/ TimelyElapse

SpecCrashTicks == InitLocked /\ [][NextCrashTicks]_vars

\* Instance s lists the dead tasks while none of them has been revived yet:
\* the instances that run restart_dead_tasks side by side get the same list.
ObtainDeadTasks(s) ==
    /\ \A s2 \in Sched : \A n \in 1..Len(trace[s2]) : trace[s2][n][1] # "revoke_by_id"
    /\ RestartDeadTasks(s)

\* The instances tick once each and run restart_dead_tasks side by side.
NextReviveRace ==
    \E s \in Sched :
        \/ FirstTick(s)
        \/ ObtainDeadTasks(s)
        \/ SkipDeadTask(s)
        \/ Revive(s)
        \/ ReturnTrue(s)

SpecReviveRace == InitRevive /\ [][NextReviveRace]_vars

\* The encoder by itself: every instance is handed a timestamp and calls
\* _create_time_pattern on it once.
InitEncode ==
    /\ multiple_scheduler_locking = [s \in Sched |-> TRUE]
    /\ crontab = [task \in TaskNames |-> {}]
    /\ restartable_tasks = <<>>
    /\ dead_tasks = <<>>
    /\ store = [k \in Keys |-> None]
    /\ pc = [s \in Sched |-> "idle"]
    /\ now \in [Sched -> Stamps]
    /\ due = [s \in Sched |-> <<>>]
    /\ i = [s \in Sched |-> 0]
    /\ ret = [s \in Sched |-> "none"]
    /\ j = [s \in Sched |-> 0]
    /\ trace = [s \in Sched |-> <<>>]
    /\ lease_lost = {}

Encode(s) ==
    /\ trace[s] = <<>>
    /\ trace' = [trace EXCEPT ![s] =
           << <<"_create_time_pattern", now[s], CreateTimePattern(now[s])>> >>]
    /\ UNCHANGED <<config, lease_lost, store, pc, now, due, i, ret, j>>

NextEncode == \E s \in Sched : Encode(s)

SpecEncode == InitEncode /\ [][NextEncode]_vars

\* ------------------------------------------------------ reading traces

Tag(s, n) == trace[s][n][1]

\* The start of the tick that event n of instance s belongs to, and the
\* tick's `now`, due list and time slot.
TickOf(s, n) == CHOOSE k \in TickStarts(s) : k <= n /\ \A k2 \in TickStarts(s) : k2 <= n => k2 <= k

NowOf(s, n) == trace[s][TickOf(s, n)][2]

DueOf(s, n) == trace[s][TickOf(s, n)][3]

SlotOf(s, n) == CreateTimePattern(NowOf(s, n))

\* The last event of the tick starting at k.
TickEnd(s, k) ==
    LET later == {k2 \in TickStarts(s) : k2 > k}
    IN  IF later = {} THEN Len(trace[s])
        ELSE (CHOOSE k2 \in later : \A k3 \in later : k2 <= k3) - 1

TickEvents(s, k) == k..TickEnd(s, k)

\* The tick starting at k is over: it returned or an exception left it.
TickOver(s, k) == Tag(s, TickEnd(s, k)) \in {"return", "raise"}

\* Results of check_and_set_for_multiple_execution for a task, in call order.
DecisionsFor(s, task) ==
    {n \in 1..Len(trace[s]) : Tag(s, n) = "decision" /\ trace[s][n][2] = task}

EnqueuesFor(s, task) ==
    {n \in 1..Len(trace[s]) : Tag(s, n) = "enqueue" /\ trace[s][n][2] = task}

RECURSIVE SumOver(_, _)
SumOver(F, S) == IF S = {} THEN 0
                 ELSE LET x == CHOOSE y \in S : TRUE IN F[x] + SumOver(F, S \ {x})

\* enqueue(task) calls made by ticks whose time slot is `slot`, over all instances.
NumEnqueues(task, slot) ==
    SumOver([s \in Sched |-> Cardinality({n \in EnqueuesFor(s, task) : SlotOf(s, n) = slot})],
            Sched)

AllLocking == \A s \in Sched : multiple_scheduler_locking[s]

Slots == {CreateTimePattern(t) : t \in Nows}

\* ------------------------------------------------------------------ C1

\* The instances that have called check_and_set_for_multiple_execution for
\* the task, each in its only tick so far.
Callers(task) ==
    {s \in Sched : Ticks(s) = 1 /\ \E n \in 1..Len(due[s]) : due[s][n] = task}

\* A finished race for (task, t): nobody has ticked twice, every caller used
\* the same `now` and has its result.
RaceOver(task, t) ==
    /\ AllLocking
    /\ \A s \in Sched : Ticks(s) <= 1
    /\ Callers(task) # {}
    /\ \A s \in Callers(task) : now[s] = t /\ DecisionsFor(s, task) # {}

\* C1: with locking enabled, when N >= 1 instances concurrently call
\* check_and_set_for_multiple_execution for the same task with the same `now`
\* over a ledger that does not hold that slot, exactly one call returns True
\* and every other call returns False.
C1_ExactlyOneEligible ==
    \A task \in TaskNames, t \in Nows :
        RaceOver(task, t) =>
            /\ Cardinality({s \in Callers(task) :
                   \E n \in DecisionsFor(s, task) : trace[s][n][3] = "True"}) = 1
            /\ \A s \in Callers(task) : \A n \in DecisionsFor(s, task) :
                   trace[s][n][3] \in {"True", "False"}

\* Every instance took part in one race and one of them lost it.
C1_Witness ==
    /\ RaceOver("DailyReport", T0)
    /\ Callers("DailyReport") = Sched
    /\ NumSched >= 2
    /\ \E s \in Sched : \E n \in DecisionsFor(s, "DailyReport") : trace[s][n][3] = "False"

\* ------------------------------------------------------------------ C2

\* C2: with locking enabled, over any sequence of ticks of any number of
\* instances, each ticking with its own `now`, a task is enqueued at most
\* once for any time slot.
C2_AtMostOncePerSlot ==
    AllLocking => \A task \in TaskNames, slot \in Slots : NumEnqueues(task, slot) <= 1

\* ------------------------------------------------------------------ C3

\* Instance s is inside the lock-protected section for the task's key.
Inside(s, task) == pc[s] \in {"can_execute", "set", "release"} /\ Task(s) = task

\* C3 as stated: for each lock key at most one instance is inside the
\* lock-protected section, also when the holder's lease expires while it is
\* inside.
C3_AtMostOneInside ==
    \A task \in TaskNames : Cardinality({s \in Sched : Inside(s, task)}) <= 1

\* C3 amended: for each lock key at most one instance whose lease has not
\* expired is inside the lock-protected section.
C3_AtMostOneInsideWithinLease ==
    \A task \in TaskNames :
        Cardinality({s \in Sched : Inside(s, task) /\ s \notin lease_lost}) <= 1

\* A slow holder and the instance that acquired the expired lock are inside.
C3_Witness ==
    \E task \in TaskNames : \E s1, s2 \in Sched :
        /\ s1 # s2
        /\ Inside(s1, task) /\ s1 \in lease_lost
        /\ Inside(s2, task) /\ s2 \notin lease_lost

\* ------------------------------------------------------------------ C4

\* n1 and n2 are results of consecutive calls of instance s for the task.
Consecutive(s, task, n1, n2) ==
    /\ n1 \in DecisionsFor(s, task) /\ n2 \in DecisionsFor(s, task)
    /\ n1 < n2
    /\ \A n \in DecisionsFor(s, task) : ~(n1 < n /\ n < n2)

\* The ledger did not hold the call's slot when the call n1 of s was made,
\* s being the only instance that has ticked.
NotHeldBefore(s, task, n1) ==
    \A n0 \in DecisionsFor(s, task) :
        Consecutive(s, task, n0, n1) => SlotOf(s, n0) # SlotOf(s, n1)

OnlyTicker(s) == \A s2 \in Sched \ {s} : Ticks(s2) = 0

\* C4: with locking enabled, of two consecutive calls for the same (task,
\* now) with no other ledger write in between, the first returns True when
\* the ledger did not hold the slot and the second returns False, and so does
\* every further call with the same (task, now).
C4_Idempotent ==
    AllLocking =>
        \A s \in Sched : OnlyTicker(s) =>
            \A task \in TaskNames : \A n1, n2 \in DecisionsFor(s, task) :
                (Consecutive(s, task, n1, n2) /\ NowOf(s, n1) = NowOf(s, n2)) =>
                    /\ trace[s][n2][3] = "False"
                    /\ NotHeldBefore(s, task, n1) => trace[s][n1][3] = "True"

\* One instance made three calls in a row for (DailyReport, T0).
C4_Witness ==
    /\ AllLocking
    /\ \E s \in Sched :
        /\ OnlyTicker(s)
        /\ \E n1, n2, n3 \in DecisionsFor(s, "DailyReport") :
            /\ Consecutive(s, "DailyReport", n1, n2)
            /\ Consecutive(s, "DailyReport", n2, n3)
            /\ NowOf(s, n1) = T0 /\ NowOf(s, n2) = T0 /\ NowOf(s, n3) = T0
            /\ trace[s][n1][3] = "True"

\* ------------------------------------------------------------------ C5

\* The tasks enqueued by the tick of s starting at k, in order.
TickEnqueues(s, k) ==
    LET evs == SelectSeq(SubSeq(trace[s], k, TickEnd(s, k)), LAMBDA e : e[1] = "enqueue")
    IN  [n \in 1..Len(evs) |-> evs[n][2]]

\* C5: with locking off, check_and_set_for_multiple_execution returns True
\* for every due task on every call by every instance, the lock and ledger
\* entries are left as they were, and every due task of every tick is
\* enqueued.
C5_Bypass ==
    (\A s \in Sched : ~multiple_scheduler_locking[s]) =>
        /\ store = [k \in Keys |-> None]
        /\ \A s \in Sched :
            /\ \A n \in 1..Len(trace[s]) : Tag(s, n) = "decision" => trace[s][n][3] = "True"
            /\ \A k \in TickStarts(s) :
                 TickOver(s, k) =>
                    /\ Tag(s, TickEnd(s, k)) = "return"
                    /\ TickEnqueues(s, k) = DueOf(s, k)

\* Without locking every instance has enqueued DailyReport in a tick at T0.
C5_Witness ==
    /\ \A s \in Sched :
        /\ ~multiple_scheduler_locking[s]
        /\ \E k \in TickStarts(s) :
            /\ TickOver(s, k) /\ NowOf(s, k) = T0
            /\ TickEnqueues(s, k) = <<"DailyReport", "Cleanup">>
    /\ NumSched >= 2

\* ------------------------------------------------------------------ C6

\* The scenario: exactly two instances have ticked, each once, at
\* 2024-03-01T10:05:30 with DailyReport due, and both ticks are over.
Ticked == {s \in Sched : Ticks(s) >= 1}

C6_Scenario ==
    /\ AllLocking
    /\ T0 = [year |-> 2024, month |-> 3, day |-> 1, hour |-> 10, minute |-> 5, second |-> 30]
    /\ Cardinality(Ticked) = 2
    /\ \A s \in Ticked :
        /\ Ticks(s) = 1 /\ TickOver(s, 1)
        /\ now[s] = T0
        /\ \E n \in 1..Len(due[s]) : due[s][n] = "DailyReport"

ExactlyOneEnqueue(task) ==
    SumOver([s \in Sched |-> Cardinality(EnqueuesFor(s, task))], Sched) = 1

\* C6 as stated: in the scenario exactly one instance calls
\* enqueue(DailyReport) and the ledger entry of DailyReport then holds
\* month3.day1.week_day5.hour10.minute5.
C6_LedgerWeekDay5 ==
    C6_Scenario =>
        /\ ExactlyOneEnqueue("DailyReport")
        /\ Get(PatternName("DailyReport"))
             = Some(Utf8Encode("month3.day1.week_day5.hour10.minute5"))

\* C6 amended: in the scenario exactly one instance calls
\* enqueue(DailyReport) and the ledger entry of DailyReport then holds
\* month3.day1.week_day4.hour10.minute5 (tm_wday counts Monday as 0, and
\* 2024-03-01 is a Friday).
C6_LedgerWeekDay4 ==
    C6_Scenario =>
        /\ ExactlyOneEnqueue("DailyReport")
        /\ Get(PatternName("DailyReport"))
             = Some(Utf8Encode("month3.day1.week_day4.hour10.minute5"))

C6_Witness == C6_Scenario /\ ExactlyOneEnqueue("DailyReport")

\* ------------------------------------------------------------------ C7

\* C7: a failure of the lock acquisition or of a ledger read or write for
\* one due task never aborts the tick: the task is not enqueued, the
\* remaining due tasks and the dead-task reviver are processed and
\* enqueue_periodic_tasks returns True.
C7_FailureIsLocal ==
    \A s \in Sched : \A k \in TickStarts(s) : \A f \in TickEvents(s, k) :
        (TickOver(s, k) /\ Tag(s, f) = "failed") =>
            /\ trace[s][f][3] \notin {TickEnqueues(s, k)[n] : n \in 1..Len(TickEnqueues(s, k))}
            /\ \A n \in 1..Len(DueOf(s, k)) :
                 \E e \in TickEvents(s, k) :
                    /\ Tag(s, e) \in {"decision", "failed"}
                    /\ trace[s][e][IF Tag(s, e) = "decision" THEN 2 ELSE 3] = DueOf(s, k)[n]
            /\ \E e \in TickEvents(s, k) : Tag(s, e) = "restart_dead_tasks"
            /\ trace[s][TickEnd(s, k)] = <<"return", "True">>

\* ------------------------------------------------------------------ C8

\* The registry has an entry matching the dead task's name.
HasMatch(task) ==
    \E m \in 1..Len(restartable_tasks) : IsSubstring(restartable_tasks[m], task.name)

Revoked(s, k, task) ==
    {n \in TickEvents(s, k) : Tag(s, n) = "revoke_by_id" /\ trace[s][n][2] = task.id}

Submitted(s, k, task) ==
    {n \in TickEvents(s, k) :
        Tag(s, n) = "submit" /\ trace[s][n][3] = task.args /\ trace[s][n][4] = task.kwargs}

FailedOn(s, k, task) ==
    \E n \in TickEvents(s, k) :
        Tag(s, n) = "failed" /\ trace[s][n][2] \in {"revoke_by_id", "get", "submit"}
                             /\ trace[s][n][3] = task.id

\* C8: a failure while reviving one dead task does not abort the processing
\* of the other dead tasks of the tick: every other dead task with a matching
\* registry entry is still revoked and resubmitted.
C8_ReviveFailureIsLocal ==
    \A s \in Sched : \A k \in TickStarts(s) :
        TickOver(s, k) =>
            \A d \in 1..Len(dead_tasks) :
                (HasMatch(dead_tasks[d]) /\ ~FailedOn(s, k, dead_tasks[d])) =>
                    /\ Revoked(s, k, dead_tasks[d]) # {}
                    /\ Submitted(s, k, dead_tasks[d]) # {}

\* ------------------------------------------------------------------ C9

\* The first entry, in registration order, that matches the dead task.
IsFirstMatching(m, task) ==
    /\ m \in 1..Len(restartable_tasks)
    /\ IsSubstring(restartable_tasks[m], task.name)
    /\ \A m2 \in 1..(m - 1) : ~IsSubstring(restartable_tasks[m2], task.name)

\* C9: for each dead task with at least one matching registry entry, one run
\* of restart_dead_tasks revokes it exactly once and submits exactly one new
\* instance with the same positional and keyword arguments, of the first
\* matching entry in registration order.
C9_RevivedOnce ==
    \A s \in Sched : \A k \in TickStarts(s) :
        TickOver(s, k) =>
            \A d \in 1..Len(dead_tasks) :
                HasMatch(dead_tasks[d]) =>
                    /\ Cardinality(Revoked(s, k, dead_tasks[d])) = 1
                    /\ Cardinality(Submitted(s, k, dead_tasks[d])) = 1
                    /\ \A n \in Submitted(s, k, dead_tasks[d]) :
                         \E m \in 1..Len(restartable_tasks) :
                            /\ IsFirstMatching(m, dead_tasks[d])
                            /\ trace[s][n][2] = restartable_tasks[m]

\* A run has revived a dead task that two registry entries match.
C9_Witness ==
    \E s \in Sched : \E k \in TickStarts(s) : \E d \in 1..Len(dead_tasks) :
        /\ TickOver(s, k)
        /\ Cardinality({m \in 1..Len(restartable_tasks) :
                           IsSubstring(restartable_tasks[m], dead_tasks[d].name)}) = 2
        /\ Submitted(s, k, dead_tasks[d]) # {}

\* ----------------------------------------------------------------- C10

\* Event n of instance s is a call made for the dead task.
CallFor(s, n, task) ==
    \/ Tag(s, n) = "revoke_by_id" /\ trace[s][n][2] = task.id
    \/ Tag(s, n) = "get" /\ trace[s][n][2] = HeartbeatObservationKey(task.id)
    \/ Tag(s, n) = "submit" /\ trace[s][n][3] = task.args /\ trace[s][n][4] = task.kwargs

\* C10: for a dead task that no registry entry matches (the empty registry
\* included), restart_dead_tasks submits nothing, does not revoke it, raises
\* nothing and goes on to the next dead task.
C10_NoMatchNoRevival ==
    \A s \in Sched :
        /\ \A n \in 1..Len(trace[s]) : Tag(s, n) # "raise"
        /\ \A d \in 1..Len(dead_tasks) :
             ~HasMatch(dead_tasks[d]) =>
                /\ \A n \in 1..Len(trace[s]) : ~CallFor(s, n, dead_tasks[d])
                /\ \A k \in TickStarts(s) :
                     TickOver(s, k) =>
                        /\ Tag(s, TickEnd(s, k)) = "return"
                        /\ \A d2 \in (d + 1)..Len(dead_tasks) :
                             HasMatch(dead_tasks[d2]) => Submitted(s, k, dead_tasks[d2]) # {}

\* A run passed a dead task without a match and revived the next one.
C10_Witness ==
    \E s \in Sched : \E k \in TickStarts(s) : \E d \in 1..Len(dead_tasks) :
        /\ TickOver(s, k)
        /\ ~HasMatch(dead_tasks[d])
        /\ d < Len(dead_tasks)
        /\ Submitted(s, k, dead_tasks[d + 1]) # {}

\* ----------------------------------------------------------------- C11

\* The dead task that the submission at event n of instance s was made for:
\* the reported dead tasks differ in their arguments.
DeadOf(s, n) ==
    CHOOSE d \in 1..Len(dead_tasks) :
        dead_tasks[d].args = trace[s][n][3] /\ dead_tasks[d].kwargs = trace[s][n][4]

\* C11: a revived task instance is always an instance of the task definition
\* of the dead instance it replaces: restart_dead_tasks never resubmits a dead
\* instance of one definition as an instance of another registered
\* definition whose class name is a substring of its name.
C11_SameDefinition ==
    \A s \in Sched : \A n \in 1..Len(trace[s]) :
        Tag(s, n) = "submit" => trace[s][n][2] = dead_tasks[DeadOf(s, n)].name

\* ----------------------------------------------------------------- C12

\* Instance s holds the lock of the task: the lock key carries its id.
HoldsLock(s, task) ==
    store[LockName(task)] # None /\ store[LockName(task)][1].val = s

\* The last call of instance s for the task left the locked section with an
\* exception raised by the ledger read or write.
LeftByError(s, task) ==
    /\ Len(trace[s]) >= 2
    /\ trace[s][Len(trace[s])] = <<"raise", "ConnectionError">>
    /\ trace[s][Len(trace[s]) - 1] \in {<<"failed", "get", task>>, <<"failed", "set", task>>}

\* C12: the lock taken by check_and_set_for_multiple_execution is released
\* on every exit path of the protected section: an instance that is not
\* inside the section of a task (it has returned True or False, or an
\* exception of the ledger read or write has left the section) does not hold
\* the task's lock.
C12_ReleasedOnEveryExit ==
    \A s \in Sched : \A task \in TaskNames :
        /\ HoldsLock(s, task) => Inside(s, task)
        /\ LeftByError(s, task) => ~HoldsLock(s, task)

\* One instance has left the section of DailyReport by a failed ledger write,
\* another by a failed ledger read, and the lock is free.
C12_Witness ==
    /\ \E s1, s2 \in Sched :
        /\ LeftByError(s1, "DailyReport") /\ LeftByError(s2, "DailyReport")
        /\ trace[s1][Len(trace[s1]) - 1] = <<"failed", "set", "DailyReport">>
        /\ trace[s2][Len(trace[s2]) - 1] = <<"failed", "get", "DailyReport">>
    /\ store[LockName("DailyReport")] = None

\* ----------------------------------------------------------------- C13

\* Instance s waits for the lock of the task, whose holder has crashed.
BlockedOnCrashed(s, task) ==
    /\ pc[s] = "check" /\ Task(s) = task
    /\ \E c \in Sched : pc[c] = "crashed" /\ HoldsLock(c, task)

\* The tick of instance s is complete: its last call returned True.
TickComplete(s) ==
    /\ pc[s] = "idle"
    /\ trace[s] # <<>>
    /\ trace[s][Len(trace[s])] = <<"return", "True">>

\* Instance s has a result of the call for every task due at its tick.
DecidedAll(s) == \A n \in 1..Len(due[s]) : DecisionsFor(s, due[s][n]) # {}

\* C13: when an instance has crashed holding the lock of a key, the lock can
\* be acquired again once its 60-unit lease has expired: every instance
\* blocked acquiring that key eventually acquires it, gets its decision and
\* completes its tick, unless it dies itself.
C13_NoWaitForever ==
    \A s \in Sched :
        (\E task \in TaskNames : BlockedOnCrashed(s, task)) ~>
            (pc[s] = "crashed" \/ (DecidedAll(s) /\ TickComplete(s)))

\* An instance died after recording the slot, still holding the lock; its
\* lease ran out, and another instance of the same slot has since found the
\* slot recorded and completed its tick.
C13_Witness ==
    \E c, s \in Sched :
        /\ c # s
        /\ pc[c] = "crashed" /\ trace[c][Len(trace[c])] = <<"crash", "release">>
        /\ c \in lease_lost
        /\ now[s] = now[c]
        /\ \E n \in DecisionsFor(s, Task(c)) : trace[s][n][3] = "False"
        /\ TickComplete(s)

\* ----------------------------------------------------------------- C14

\* Instance s has encoded its timestamp; the slot it got.
Encoded(s) == trace[s] # <<>> /\ trace[s][1][1] = "_create_time_pattern"

Slot(s) == trace[s][1][3]

\* Month, day of the month, weekday, hour and minute of a timestamp.
Components(t) == <<t.month, t.day, Weekday(t), t.hour, t.minute>>

\* The fields of two timestamps differ in f only.
DifferOnlyIn(t1, t2, f) ==
    /\ t1[f] # t2[f]
    /\ \A g \in {"year", "month", "day", "hour", "minute", "second"} \ {f} : t1[g] = t2[g]

\* C14 as stated: two timestamps get the same slot if and only if their
\* month, day of the month, weekday, hour and minute are equal; timestamps
\* differing only in the second, or only in the year, get the same slot, and
\* timestamps differing in the minute get different slots.
C14_SameSlotAcrossYears ==
    \A s1, s2 \in Sched :
        (Encoded(s1) /\ Encoded(s2)) =>
            /\ (Slot(s1) = Slot(s2)) <=> (Components(now[s1]) = Components(now[s2]))
            /\ DifferOnlyIn(now[s1], now[s2], "second") => Slot(s1) = Slot(s2)
            /\ DifferOnlyIn(now[s1], now[s2], "year") => Slot(s1) = Slot(s2)
            /\ now[s1].minute # now[s2].minute => Slot(s1) # Slot(s2)

\* C14 amended: two timestamps get the same slot if and only if their month,
\* day of the month, weekday, hour and minute are equal; timestamps differing
\* only in the second get the same slot, timestamps differing only in the
\* year get the same slot exactly when they fall on the same weekday, and
\* timestamps differing in the minute get different slots.
C14_SameSlotIffComponents ==
    \A s1, s2 \in Sched :
        (Encoded(s1) /\ Encoded(s2)) =>
            /\ (Slot(s1) = Slot(s2)) <=> (Components(now[s1]) = Components(now[s2]))
            /\ DifferOnlyIn(now[s1], now[s2], "second") => Slot(s1) = Slot(s2)
            /\ DifferOnlyIn(now[s1], now[s2], "year") =>
                 ((Slot(s1) = Slot(s2)) <=> (Weekday(now[s1]) = Weekday(now[s2])))
            /\ now[s1].minute # now[s2].minute => Slot(s1) # Slot(s2)

\* Two timestamps of different years that fall on the same weekday were given
\* the same slot.
C14_Witness ==
    \E s1, s2 \in Sched :
        /\ Encoded(s1) /\ Encoded(s2)
        /\ DifferOnlyIn(now[s1], now[s2], "year")
        /\ Slot(s1) = Slot(s2)

\* ----------------------------------------------------------------- C15

\* The next step of instance s reads, or writes, the ledger entry of the task.
AboutToRead(s, task) == pc[s] = "can_execute" /\ Task(s) = task

AboutToWrite(s, task) == pc[s] = "set" /\ Task(s) = task

\* C15 as stated: with locking enabled, every ledger read and every ledger
\* write of a key is made by an instance holding that key's lock, and between
\* an instance's read and its write no other instance reads or writes the
\* same entry.
C15_LockDiscipline ==
    \A s \in Sched : \A task \in TaskNames :
        /\ (AboutToRead(s, task) \/ AboutToWrite(s, task)) => HoldsLock(s, task)
        /\ AboutToWrite(s, task) =>
             \A s2 \in Sched \ {s} : ~(AboutToRead(s2, task) \/ AboutToWrite(s2, task))

\* C15 amended: with locking enabled, every ledger read and write of an
\* instance whose lease has not expired is made holding the key's lock, and
\* between such an instance's read and its write no other instance whose
\* lease has not expired reads or writes the same entry.
C15_LockDisciplineWithinLease ==
    \A s \in Sched \ lease_lost : \A task \in TaskNames :
        /\ (AboutToRead(s, task) \/ AboutToWrite(s, task)) => HoldsLock(s, task)
        /\ AboutToWrite(s, task) =>
             \A s2 \in Sched \ (lease_lost \cup {s}) :
                ~(AboutToRead(s2, task) \/ AboutToWrite(s2, task))

\* An instance is between its read and its write, holding the lock, while
\* another waits for the same lock.
C15_Witness ==
    \E s, s2 \in Sched : \E task \in TaskNames :
        /\ s # s2
        /\ AboutToWrite(s, task) /\ HoldsLock(s, task) /\ s \notin lease_lost
        /\ pc[s2] = "check" /\ Task(s2) = task

\* ----------------------------------------------------------------- C16

\* The ledger entry of the task: None, or the recorded slot.
Ledger(task) == GetLastExecutionTimePattern(PatternName(task))

\* The step is the return of a call of instance s for the task with the result.
Returns(s, task, result) == trace'[s] = Append(trace[s], <<"decision", task, result>>)

\* The step is the ledger read of instance s (lines 46, 76), and it found
\* the call eligible.
Reads(s) == pc[s] = "can_execute" /\ pc'[s] # "can_execute"

FoundEligible(s) == pc'[s] = "set"

\* C16: a locked check is eligible if and only if the ledger entry of the
\* task is absent or differs from the slot of `now`; an eligible call leaves
\* the entry equal to that slot, a call that is not eligible leaves it as it
\* was; no operation deletes a ledger entry.
C16_DecisionRule ==
    [][AllLocking => \A s \in Sched : \A task \in TaskNames :
          /\ (Reads(s) /\ Task(s) = task) =>
                /\ FoundEligible(s) <=>
                      (Ledger(task) = None \/ Ledger(task) # Some(CreateTimePattern(now[s])))
                /\ ~FoundEligible(s) => pc'[s] = "release" /\ ret'[s] = "False"
                /\ Ledger(task)' = Ledger(task)
          /\ Returns(s, task, "True") =>
                /\ ret[s] = "True"
                /\ Ledger(task)' = Some(CreateTimePattern(now[s]))
          /\ Returns(s, task, "False") =>
                /\ ret[s] = "False"
                /\ Ledger(task)' = Ledger(task)
                /\ Ledger(task) = Some(CreateTimePattern(now[s]))
          /\ Ledger(task) # None => Ledger(task)' # None
      ]_vars

\* A call was eligible over an absent entry, one over an entry holding
\* another slot, and one was not eligible.
C16_Witness ==
    /\ AllLocking
    /\ \E s1, s2, s3 \in Sched :
         \E n1 \in DecisionsFor(s1, "DailyReport") :
         \E n2 \in DecisionsFor(s2, "DailyReport") :
         \E n3 \in DecisionsFor(s3, "DailyReport") :
            /\ trace[s1][n1][3] = "True" /\ NowOf(s1, n1) = T0
            /\ trace[s2][n2][3] = "True" /\ NowOf(s2, n2) = T1
            /\ trace[s3][n3][3] = "False"
    /\ Ledger("DailyReport") # None

\* ----------------------------------------------------------------- C17

\* What the tick of s starting at k did for its due tasks: the events between
\* the status event and the call of restart_dead_tasks.
RECURSIVE Dispatched(_, _)
Dispatched(tasks, results) ==
    IF tasks = <<>> THEN <<>>
    ELSE (IF Head(results) = "True"
          THEN << <<"decision", Head(tasks), "True">>,
                  <<"EVENT_SCHEDULING_PERIODIC", Head(tasks)>>,
                  <<"enqueue", Head(tasks)>> >>
          ELSE << <<"decision", Head(tasks), Head(results)>> >>)
         \o Dispatched(Tail(tasks), Tail(results))

\* The results of the calls of check_and_set_for_multiple_execution of the
\* tick, in order.
TickResults(s, k) ==
    LET evs == SelectSeq(SubSeq(trace[s], k, TickEnd(s, k)), LAMBDA e : e[1] = "decision")
    IN  [n \in 1..Len(evs) |-> evs[n][3]]

\* The events of the tick that are not calls made for a dead task.
TickOutline(s, k) ==
    SelectSeq(SubSeq(trace[s], k + 1, TickEnd(s, k)),
              LAMBDA e : e[1] \notin {"revoke_by_id", "get", "submit"})

\* The calls made for dead tasks lie between restart_dead_tasks and the return.
RevivesLast(s, k) ==
    \A n \in TickEvents(s, k) :
        Tag(s, n) = "restart_dead_tasks" =>
            \A n2 \in TickEvents(s, k) :
                (Tag(s, n2) \in {"revoke_by_id", "get", "submit"}) <=> (n < n2 /\ n2 < TickEnd(s, k))

\* C17: in a tick the status event of the check comes first; then, for each
\* due task in listing order, its decision, and for an eligible task its
\* scheduling event and then its enqueue, nothing for a task that is not
\* eligible; then restart_dead_tasks runs, once, also when no task is due;
\* then the tick returns True.
C17_TickOrder ==
    \A s \in Sched : \A k \in TickStarts(s) :
        TickOver(s, k) =>
            /\ Len(TickResults(s, k)) = Len(DueOf(s, k))
            /\ TickOutline(s, k) =
                   << <<"EVENT_CHECKING_PERIODIC">> >>
                   \o Dispatched(DueOf(s, k), TickResults(s, k))
                   \o << <<"restart_dead_tasks">>, <<"return", "True">> >>
            /\ RevivesLast(s, k)

\* A finished tick with two due tasks, the first not eligible and the second
\* eligible, that also called for a dead task.
C17_Witness ==
    \E s \in Sched : \E k \in TickStarts(s) :
        /\ TickOver(s, k)
        /\ DueOf(s, k) = <<"DailyReport", "Cleanup">>
        /\ TickResults(s, k) = <<"False", "True">>
        /\ \E n \in TickEvents(s, k) : Tag(s, n) = "submit"

\* ----------------------------------------------------------------- C18

\* Instance c recorded the slot of its `now` for the task and died before it
\* enqueued the task: after line 52, before line 64.
RecordedAndCrashed(c, task) ==
    /\ pc[c] = "crashed" /\ Task(c) = task
    /\ \/ trace[c][Len(trace[c])] = <<"crash", "enqueue">>
       \/ trace[c][Len(trace[c])] = <<"crash", "release">> /\ ret[c] = "True"

\* The step is the enqueue of the task by instance s.
Enqueues(s, task) ==
    /\ Len(trace'[s]) = Len(trace[s]) + 2
    /\ trace'[s][Len(trace'[s])] = <<"enqueue", task>>

\* C18: the slot is recorded before the task is enqueued, outside the lock,
\* so once the instance that recorded slot S for task T has died before
\* enqueuing T, no call for (T, S) of any instance returns True and T is not
\* enqueued for S: at most once per slot, not at least once.
C18_LostSlotStaysLost ==
    [][\A c \in Sched : \A task \in TaskNames :
          RecordedAndCrashed(c, task) =>
              \A s \in Sched :
                  CreateTimePattern(now[s]) = CreateTimePattern(now[c]) =>
                      /\ ~Returns(s, task, "True")
                      /\ ~Enqueues(s, task)
      ]_vars

\* ----------------------------------------------------------------- C19

\* The submissions made for the dead task by instance s, and by all instances.
SubmittedBy(s, task) ==
    {n \in 1..Len(trace[s]) :
        Tag(s, n) = "submit" /\ trace[s][n][3] = task.args /\ trace[s][n][4] = task.kwargs}

NumSubmitted(task) == SumOver([s \in Sched |-> Cardinality(SubmittedBy(s, task))], Sched)

\* C19: a dead task instance with a matching registry entry is revived at
\* most once over all scheduler instances: when several of them run
\* restart_dead_tasks side by side and get the same dead instance from
\* get_dead_tasks, one new instance is submitted for it.
C19_RevivedOnceInTotal ==
    \A d \in 1..Len(dead_tasks) :
        HasMatch(dead_tasks[d]) => NumSubmitted(dead_tasks[d]) <= 1

====
